---- MODULE Spec2Model ----
(***************************************************************************)
(* kyansel: the Cancellable combinator, racing an inner future against a   *)
(* stopper future.  Three variants are modelled:                           *)
(*   "std"  src/src/lib.rs         (core::future, CancellableResult)       *)
(*   "f01"  src/src/futures_01.rs  (futures 0.1, CancellableError)         *)
(*   "fstd" src/src/futures_std.rs (core::future, producer cancel_with)    *)
(* The two children are opaque futures: what each would answer to a poll   *)
(* on a given call is an input of that call.                               *)
(***************************************************************************)
EXTENDS Integers, Sequences, FiniteSets, TLC

\* ---- bounds -------------------------------------------------------------
MaxVal == 2
MaxCalls == 3

\* ---- values carried by the children --------------------------------------
\* F::Output / F::Item, S::Output / S::Item, F::Error, S::Error: four
\* unrelated types, kept disjoint so that a payload cannot change side
\* unnoticed.
NoVal == <<"-", 0>>
TVal == {<<"T", i>> : i \in 1..MaxVal}
SVal == {<<"S", i>> : i \in 1..MaxVal}
EVal == {<<"E", i>> : i \in 1..MaxVal}
SErrVal == {<<"SE", i>> : i \in 1..MaxVal}

R(tag, val) == [tag |-> tag, val |-> val]

\* core::task::Poll<T> as answered by a child of the std variant
PendingStd == R("Pending", NoVal)
InnerRespStd == {PendingStd} \cup {R("Ready", v) : v \in TVal}
\* S::Output of the std variant may itself be a Result (examples/debounce.rs:
\* Result<usize, RecvError>): an Ok payload or the stopper's own failure.
SOutStd == SVal \cup SErrVal
StopperRespStd == {PendingStd} \cup {R("Ready", v) : v \in SOutStd}

\* futures_01::Poll<Item, Error> = Result<Async<Item>, Error> as answered by
\* a child of the futures 0.1 variant
NotReady01 == R("NotReady", NoVal)
InnerResp01 ==
    {NotReady01} \cup {R("Ready", v) : v \in TVal} \cup {R("Err", e) : e \in EVal}
StopperResp01 ==
    {NotReady01} \cup {R("Ready", v) : v \in SVal} \cup {R("Err", e) : e \in SErrVal}

\* ---- outcome types --------------------------------------------------------
\* CancellableResult<T, S>, as returned inside Poll::Ready
Finished(t) == R("Finished", t)
CancelledResult(s) == R("Cancelled", s)

\* CancellableError<C, E>, as returned inside Err
Cancelled(c) == R("Cancelled", c)
Errored(e) == R("Errored", e)

\* ---- accessors -------------------------------------------------------------
\* Option<X>
Some(x) == R("Some", x)
NoneOpt == R("None", NoVal)

\* CancellableResult::is_cancelled
is_cancelled(self) ==
    IF self.tag = "Cancelled" THEN TRUE ELSE FALSE

\* finished returning the payload whatever the variant.
finished_any_variant(self) == Some(self.val)

\* CancellableResult::finished
finished(self) ==
    IF self.tag = "Finished" THEN Some(self.val) ELSE NoneOpt

\* CancellableResult::cancelled
cancelled(self) ==
    IF self.tag = "Cancelled" THEN Some(self.val) ELSE NoneOpt

\* CancellableError::is_cancelled
is_cancelled_01(self) ==
    IF self.tag = "Cancelled" THEN TRUE ELSE FALSE

\* CancellableError::errored
errored(self) ==
    IF self.tag = "Errored" THEN Some(self.val) ELSE NoneOpt

\* CancellableError::cancelled
cancelled_01(self) ==
    IF self.tag = "Cancelled" THEN Some(self.val) ELSE NoneOpt

\* ---- construction ---------------------------------------------------------
\* The stopper field: the std struct holds the stopper itself ("S"), the
\* futures 0.1 struct holds Option<S> ("Some" / "None").
cancellable(inner, stopper) == [inner |-> inner, stopper |-> stopper]
cancel_with(self, stopper) == [inner |-> self, stopper |-> stopper]

cancellable_01(inner, stopper) == [inner |-> inner, stopper |-> "Some"]

\* cancel_with of the futures 0.1 variant leaving the stopper slot empty.
cancel_with_01_no_stopper(self, stopper) == [inner |-> self, stopper |-> "None"]

cancel_with_01(self, stopper) == [inner |-> self, stopper |-> "Some"]

\* cancel_with of src/futures_std.rs keeping the producer in the struct to
\* call it later: it is not invoked at attachment.
cancel_with_fn_lazy(self, n) ==
    [this |-> [inner |-> self, stopper |-> "producer"], produced |-> n]

\* FutureCancellable::cancel_with of src/futures_std.rs: the stopper is given
\* as a FnOnce producer, invoked here; n counts the invocations so far.
cancel_with_fn(self, n) ==
    [this |-> [inner |-> self, stopper |-> "S"], produced |-> n + 1]

\* ---- variants of the code used to test the properties ---------------------
\* poll with the stopper polled before the inner future.
poll_stopper_first(this, p, s) ==
    IF s.tag = "Ready"
    THEN [ret |-> CancelledResult(s.val), this |-> this, log |-> <<"stopper">>]
    ELSE IF p.tag = "Ready"
         THEN [ret |-> Finished(p.val), this |-> this, log |-> <<"stopper", "inner">>]
         ELSE [ret |-> PendingStd, this |-> this, log |-> <<"stopper", "inner">>]

\* poll with the stopper polled even when the inner future is ready.
poll_always_stopper(this, p, s) ==
    IF p.tag = "Ready"
    THEN [ret |-> Finished(p.val), this |-> this, log |-> <<"inner", "stopper">>]
    ELSE IF s.tag = "Ready"
         THEN [ret |-> CancelledResult(s.val), this |-> this,
               log |-> <<"inner", "stopper">>]
         ELSE [ret |-> PendingStd, this |-> this, log |-> <<"inner", "stopper">>]

\* poll with the two outcome variants swapped on the early return.
poll_swapped_variant(this, p, s) ==
    IF p.tag = "Ready"
    THEN [ret |-> CancelledResult(p.val), this |-> this, log |-> <<"inner">>]
    ELSE IF s.tag = "Ready"
         THEN [ret |-> CancelledResult(s.val), this |-> this,
               log |-> <<"inner", "stopper">>]
         ELSE [ret |-> PendingStd, this |-> this, log |-> <<"inner", "stopper">>]

\* poll giving the inner future a last poll once the stopper has fired.
poll_last_chance(this, p, s) ==
    IF p.tag = "Ready"
    THEN [ret |-> Finished(p.val), this |-> this, log |-> <<"inner">>]
    ELSE IF s.tag = "Ready"
         THEN [ret |-> CancelledResult(s.val), this |-> this,
               log |-> <<"inner", "stopper", "inner">>]
         ELSE [ret |-> PendingStd, this |-> this, log |-> <<"inner", "stopper">>]

\* poll treating a stopper that completed with its own failure as not ready
\* (the behaviour of the futures 0.1 variant carried over).
poll_failure_not_cancel(this, p, s) ==
    IF p.tag = "Ready"
    THEN [ret |-> Finished(p.val), this |-> this, log |-> <<"inner">>]
    ELSE IF s.tag = "Ready" /\ s.val \notin SErrVal
         THEN [ret |-> CancelledResult(s.val), this |-> this,
               log |-> <<"inner", "stopper">>]
         ELSE [ret |-> PendingStd, this |-> this, log |-> <<"inner", "stopper">>]

\* poll remembering that it resolved: once an outcome was returned the
\* struct is marked and later calls return Pending without polling a child.
poll_fused(this, p, s) ==
    IF this.stopper = "Done"
    THEN [ret |-> PendingStd, this |-> this, log |-> <<>>]
    ELSE IF p.tag = "Ready"
         THEN [ret |-> Finished(p.val), this |-> [this EXCEPT !.stopper = "Done"],
               log |-> <<"inner">>]
         ELSE IF s.tag = "Ready"
              THEN [ret |-> CancelledResult(s.val),
                    this |-> [this EXCEPT !.stopper = "Done"],
                    log |-> <<"inner", "stopper">>]
              ELSE [ret |-> PendingStd, this |-> this,
                    log |-> <<"inner", "stopper">>]

\* poll written with the ready! macro on the inner future: a pending inner
\* future returns Pending at once and the stopper is not polled.
poll_ready_macro(this, p, s) ==
    IF p.tag = "Ready"
    THEN [ret |-> Finished(p.val), this |-> this, log |-> <<"inner">>]
    ELSE [ret |-> PendingStd, this |-> this, log |-> <<"inner">>]

\* ---- poll -----------------------------------------------------------------
\* One call of <Cancellable as Future>::poll, std variant.  this is the
\* struct, p and s what inner and stopper answer when polled on this call.
\* Yields the returned Poll, the struct afterwards and the child polls made,
\* in order.
poll(this, p, s) ==
    IF p.tag = "Ready"
    THEN [ret |-> Finished(p.val), this |-> this, log |-> <<"inner">>]
    ELSE IF s.tag = "Ready"
         THEN [ret |-> CancelledResult(s.val), this |-> this,
               log |-> <<"inner", "stopper">>]
         ELSE [ret |-> PendingStd, this |-> this, log |-> <<"inner", "stopper">>]

\* One call of <Cancellable as Future>::poll of src/futures_std.rs (the
\* pin_project_lite version of the std variant).
poll_std(this, p, s) ==
    IF p.tag = "Ready"
    THEN [ret |-> Finished(p.val), this |-> this, log |-> <<"inner">>]
    ELSE IF s.tag = "Ready"
         THEN [ret |-> CancelledResult(s.val), this |-> this,
               log |-> <<"inner", "stopper">>]
         ELSE [ret |-> PendingStd, this |-> this, log |-> <<"inner", "stopper">>]

\* inner_01 losing the error of the inner future.
inner_01_drops_error(p) == NotReady01

\* The value bound to `inner` at futures_01.rs:106-112 when the inner future
\* did not return Ok(Ready): Ok(NotReady) as is, or Err(Errored(e)).
inner_01(p) ==
    IF p.tag = "NotReady" THEN p ELSE Errored(p.val)

\* stopper_01 with `Ok(_) => {}` as the first arm: a ready stopper is ignored.
stopper_01_ignores_ready(this, s) ==
    IF this.stopper = "Some"
    THEN IF s.tag \in {"Ready", "NotReady"}
         THEN [returns |-> FALSE, ret |-> R("-", NoVal),
               this |-> this, log |-> <<"stopper">>]
         ELSE [returns |-> FALSE, ret |-> R("-", NoVal),
               this |-> [this EXCEPT !.stopper = "None"], log |-> <<"stopper">>]
    ELSE [returns |-> FALSE, ret |-> R("-", NoVal), this |-> this, log |-> <<>>]

\* stopper_01 with `Err(_) => {}`: the slot is kept after a stopper failure.
stopper_01_keeps_slot(this, s) ==
    IF this.stopper = "Some"
    THEN IF s.tag = "Ready"
         THEN [returns |-> TRUE, ret |-> Cancelled(s.val),
               this |-> this, log |-> <<"stopper">>]
         ELSE [returns |-> FALSE, ret |-> R("-", NoVal),
               this |-> this, log |-> <<"stopper">>]
    ELSE [returns |-> FALSE, ret |-> R("-", NoVal), this |-> this, log |-> <<>>]

\* stopper_01 clearing the slot whenever the stopper is not ready.
stopper_01_clears_on_not_ready(this, s) ==
    IF this.stopper = "Some"
    THEN IF s.tag = "Ready"
         THEN [returns |-> TRUE, ret |-> Cancelled(s.val),
               this |-> this, log |-> <<"stopper">>]
         ELSE [returns |-> FALSE, ret |-> R("-", NoVal),
               this |-> [this EXCEPT !.stopper = "None"], log |-> <<"stopper">>]
    ELSE [returns |-> FALSE, ret |-> R("-", NoVal), this |-> this, log |-> <<>>]

\* stopper_01 propagating the stopper's error to the caller.
stopper_01_propagates_error(this, s) ==
    IF this.stopper = "Some"
    THEN IF s.tag = "Ready"
         THEN [returns |-> TRUE, ret |-> Cancelled(s.val),
               this |-> this, log |-> <<"stopper">>]
         ELSE IF s.tag = "NotReady"
              THEN [returns |-> FALSE, ret |-> R("-", NoVal),
                    this |-> this, log |-> <<"stopper">>]
              ELSE [returns |-> TRUE, ret |-> Errored(s.val),
                    this |-> [this EXCEPT !.stopper = "None"], log |-> <<"stopper">>]
    ELSE [returns |-> FALSE, ret |-> R("-", NoVal), this |-> this, log |-> <<>>]

\* stopper_01 taking the stopper out of the slot once it has fired.
stopper_01_takes_on_ready(this, s) ==
    IF this.stopper = "Some"
    THEN IF s.tag = "Ready"
         THEN [returns |-> TRUE, ret |-> Cancelled(s.val),
               this |-> [this EXCEPT !.stopper = "None"], log |-> <<"stopper">>]
         ELSE IF s.tag = "NotReady"
              THEN [returns |-> FALSE, ret |-> R("-", NoVal),
                    this |-> this, log |-> <<"stopper">>]
              ELSE [returns |-> FALSE, ret |-> R("-", NoVal),
                    this |-> [this EXCEPT !.stopper = "None"], log |-> <<"stopper">>]
    ELSE [returns |-> FALSE, ret |-> R("-", NoVal), this |-> this, log |-> <<>>]

\* The `if let Some(ref mut stopper)` block, futures_01.rs:114-124: whether
\* the stopper is polled, whether the call returns from inside the block,
\* and the slot afterwards.
stopper_01(this, s) ==
    IF this.stopper = "Some"
    THEN IF s.tag = "Ready"
         THEN [returns |-> TRUE, ret |-> Cancelled(s.val),
               this |-> this, log |-> <<"stopper">>]
         ELSE IF s.tag = "NotReady"
              THEN [returns |-> FALSE, ret |-> R("-", NoVal),
                    this |-> this, log |-> <<"stopper">>]
              ELSE [returns |-> FALSE, ret |-> R("-", NoVal),
                    this |-> [this EXCEPT !.stopper = "None"], log |-> <<"stopper">>]
    ELSE [returns |-> FALSE, ret |-> R("-", NoVal), this |-> this, log |-> <<>>]

\* poll_01 returning the inner future's error at once (as `?` would).
poll_01_early_error(this, p, s) ==
    IF p.tag = "Ready"
    THEN [ret |-> p, this |-> this, log |-> <<"inner">>]
    ELSE IF p.tag = "Err"
         THEN [ret |-> Errored(p.val), this |-> this, log |-> <<"inner">>]
         ELSE LET st == stopper_01(this, s)
              IN  [ret |-> IF st.returns THEN st.ret ELSE p,
                   this |-> st.this,
                   log |-> <<"inner">> \o st.log]

\* One call of <Cancellable as Future>::poll, futures 0.1 variant.
poll_01(this, p, s) ==
    IF p.tag = "Ready"
    THEN [ret |-> p, this |-> this, log |-> <<"inner">>]
    ELSE LET inner == inner_01(p)
             st == stopper_01(this, s)
         IN  [ret |-> IF st.returns THEN st.ret ELSE inner,
              this |-> st.this,
              log |-> <<"inner">> \o st.log]

\* ---- state ----------------------------------------------------------------
VARIABLES
    variant,    \* "std" or "f01": which Cancellable this is
    this,       \* the Cancellable struct
    calls,      \* poll calls made so far
    entry,      \* the struct at entry of the latest call
    pResp,      \* what inner answers on the latest call if polled
    sResp,      \* what stopper answers on the latest call if polled
    log,        \* child polls made by the latest call, in order
    ret,        \* what the latest call returned
    innerPolls, \* polls of inner made so far
    stopperPolls, \* polls of stopper made so far
    innerDoneAt,  \* the first call on which inner returned done (0: none)
    stopperErrAt, \* the call on which a stopper poll returned Err (0: none)
    cancelledAt,  \* the first call that returned Cancelled (0: none)
    acc,          \* what the accessors gave for the latest outcome, once read
    via,          \* the constructor that built `this` ("-": not built yet)
    twin,         \* the struct the other constructor builds from the same
                  \* inner and stopper, polled alongside with the same answers
    twinRet,      \* what the latest call on twin returned
    pReadyAt,     \* which poll of inner (made, or due on that call) first
                  \* had the answer ready (0: none)
    sReadyAt,     \* which poll of the stopper (made, or due on that call)
                  \* first had the answer ready (0: none)
    resolvedAt,   \* the first call that returned a done outcome (0: none)
    firstOutcome, \* the outcome of that call
    wakers,       \* the children holding the task's waker from the latest
                  \* call: those polled with its Context that answered not-done
    fired,        \* the canceller has sent on the channel the stopper reads
    firedAt,      \* the number of poll calls made when it did
    woken,        \* the task was woken since its latest poll call
    elapsed,      \* the work of the inner future is over: it is done from
                  \* now on
    produced      \* invocations of the stopper producer so far

vars == <<variant, this, calls, entry, pResp, sResp, log, ret,
          innerPolls, stopperPolls, innerDoneAt, stopperErrAt, cancelledAt,
          acc, via, twin, twinRet, pReadyAt, sReadyAt, resolvedAt,
          firstOutcome, wakers, fired, firedAt, woken, elapsed, produced>>

Count(seq, x) == Cardinality({i \in 1..Len(seq) : seq[i] = x})

None == R("-", NoVal)

\* No outcome has been read through the accessors.
NoAcc ==
    [of |-> None, is_cancelled |-> FALSE, finished |-> None, errored |-> None,
     cancelled |-> None]

\* No Cancellable exists yet.
Unbuilt == [inner |-> "-", stopper |-> "-"]

Init ==
    /\ variant \in {"std", "f01", "fstd"}
    /\ produced = 0
    /\ this = Unbuilt
    /\ via = "-"
    /\ twin = Unbuilt
    /\ twinRet = None
    /\ pReadyAt = 0
    /\ sReadyAt = 0
    /\ resolvedAt = 0
    /\ firstOutcome = None
    /\ wakers = {}
    /\ fired = FALSE
    /\ firedAt = 0
    /\ woken = FALSE
    /\ elapsed = FALSE
    /\ calls = 0
    /\ entry = this
    /\ pResp = None
    /\ sResp = None
    /\ log = <<>>
    /\ ret = None
    /\ innerPolls = 0
    /\ stopperPolls = 0
    /\ innerDoneAt = 0
    /\ stopperErrAt = 0
    /\ cancelledAt = 0
    /\ acc = NoAcc

\* Everything but the struct, its twin and the constructor used.
pollVars == <<variant, calls, entry, pResp, sResp, log, ret,
              innerPolls, stopperPolls, innerDoneAt, stopperErrAt, cancelledAt,
              acc, twinRet, pReadyAt, sReadyAt, resolvedAt,
              firstOutcome, wakers, fired, firedAt, woken, elapsed, produced>>

\* The free function cancellable(inner, stopper) builds the Cancellable.
NewCancellable ==
    /\ variant \in {"std", "f01"}
    /\ via = "-"
    /\ via' = "cancellable"
    /\ this' = IF variant = "std" THEN cancellable("F", "S")
               ELSE cancellable_01("F", "S")
    /\ twin' = IF variant = "std" THEN cancel_with("F", "S")
               ELSE cancel_with_01("F", "S")
    /\ UNCHANGED pollVars

\* inner.cancel_with(stopper) builds the Cancellable.
NewCancelWith ==
    /\ variant \in {"std", "f01"}
    /\ via = "-"
    /\ via' = "cancel_with"
    /\ this' = IF variant = "std" THEN cancel_with("F", "S")
               ELSE cancel_with_01("F", "S")
    /\ twin' = IF variant = "std" THEN cancellable("F", "S")
               ELSE cancellable_01("F", "S")
    /\ UNCHANGED pollVars

\* inner.cancel_with(|| stopper) of src/futures_std.rs builds the Cancellable
\* (examples/usage.rs:29-30).
NewCancelWithFn ==
    /\ variant = "fstd"
    /\ via = "-"
    /\ via' = "cancel_with_fn"
    /\ LET c == cancel_with_fn("F", produced)
       IN  this' = c.this /\ produced' = c.produced
    /\ UNCHANGED <<variant, calls, entry, pResp, sResp, log, ret,
                   innerPolls, stopperPolls, innerDoneAt, stopperErrAt,
                   cancelledAt, acc, twin, twinRet, pReadyAt, sReadyAt,
                   resolvedAt, firstOutcome, wakers, fired, firedAt, woken,
                   elapsed>>

\* What the stopper can answer on a call: anything, but ready with the sent
\* value once the canceller has sent.
StopperAnswers(all) ==
    IF fired THEN {R("Ready", v) : v \in SVal} ELSE all

\* What the inner future can answer on a call: anything, but done once its
\* work is over.
InnerAnswers(all) ==
    IF elapsed THEN {r \in all : r.tag \notin {"Pending", "NotReady"}} ELSE all

\* The children left holding the waker by a call that made the polls in l
\* and got the answers p and s.
Registered(l, p, s) ==
    {c \in {"inner", "stopper"} :
        /\ Count(l, c) > 0
        /\ (IF c = "inner" THEN p.tag ELSE s.tag) \in {"Pending", "NotReady"}}

\* The bookkeeping shared by both variants: r is what the call yielded, rt
\* what the same call on twin yielded.
Record(p, s, r, rt) ==
    /\ twin' = rt.this
    /\ twinRet' = rt.ret
    /\ pReadyAt' = IF p.tag = "Ready" /\ pReadyAt = 0
                   THEN innerPolls + 1 ELSE pReadyAt
    /\ sReadyAt' = IF s.tag = "Ready" /\ sReadyAt = 0
                   THEN stopperPolls + 1 ELSE sReadyAt
    /\ resolvedAt' = IF r.ret.tag \notin {"Pending", "NotReady"} /\ resolvedAt = 0
                     THEN calls + 1 ELSE resolvedAt
    /\ firstOutcome' = IF r.ret.tag \notin {"Pending", "NotReady"} /\ resolvedAt = 0
                       THEN r.ret ELSE firstOutcome
    /\ calls' = calls + 1
    /\ entry' = this
    /\ pResp' = p
    /\ sResp' = s
    /\ this' = r.this
    /\ log' = r.log
    /\ ret' = r.ret
    /\ innerPolls' = innerPolls + Count(r.log, "inner")
    /\ stopperPolls' = stopperPolls + Count(r.log, "stopper")
    /\ innerDoneAt' = IF Count(r.log, "inner") > 0 /\ p.tag \in {"Ready", "Err"}
                         /\ innerDoneAt = 0
                      THEN calls + 1 ELSE innerDoneAt
    /\ stopperErrAt' = IF Count(r.log, "stopper") > 0 /\ s.tag = "Err" /\ stopperErrAt = 0
                       THEN calls + 1 ELSE stopperErrAt
    /\ cancelledAt' = IF r.ret.tag = "Cancelled" /\ cancelledAt = 0
                      THEN calls + 1 ELSE cancelledAt
    /\ acc' = NoAcc
    /\ wakers' = Registered(r.log, p, s)
    /\ woken' = FALSE
    /\ UNCHANGED <<variant, via, fired, firedAt, elapsed, produced>>

\* The executor (or any caller) polls the std Cancellable.  The code keeps no
\* "resolved" flag, so a call is possible after an outcome was returned.
Poll ==
    /\ variant = "std"
    /\ via # "-"
    /\ calls < MaxCalls
    /\ \E p \in InnerAnswers(InnerRespStd), s \in StopperAnswers(StopperRespStd) :
          Record(p, s, poll(this, p, s), poll(twin, p, s))

\* The executor (or any caller) polls the Cancellable of src/futures_std.rs,
\* which has one constructor: there is no twin to poll alongside.
PollStd ==
    /\ variant = "fstd"
    /\ via # "-"
    /\ calls < MaxCalls
    /\ \E p \in InnerAnswers(InnerRespStd), s \in StopperAnswers(StopperRespStd) :
          Record(p, s, poll_std(this, p, s), [this |-> twin, ret |-> twinRet])

\* The executor (or any caller) polls the futures 0.1 Cancellable.
Poll01 ==
    /\ variant = "f01"
    /\ via # "-"
    /\ calls < MaxCalls
    /\ \E p \in InnerAnswers(InnerResp01), s \in StopperAnswers(StopperResp01) :
          Record(p, s, poll_01(this, p, s), poll_01(twin, p, s))

\* The caller reads the CancellableResult it got out of Poll::Ready through
\* the three accessors (lib.rs:33, examples/debounce.rs:32-37).
Inspect ==
    /\ variant = "std"
    /\ ret.tag \in {"Finished", "Cancelled"}
    /\ acc = NoAcc
    /\ acc' = [of |-> ret, is_cancelled |-> is_cancelled(ret),
               finished |-> finished(ret), errored |-> None,
               cancelled |-> cancelled(ret)]
    /\ UNCHANGED <<variant, this, calls, entry, pResp, sResp, log, ret,
                   innerPolls, stopperPolls, innerDoneAt, stopperErrAt,
                   cancelledAt, via, twin, twinRet, pReadyAt, sReadyAt, resolvedAt,
                   firstOutcome, wakers, fired, firedAt, woken, elapsed, produced>>

\* The caller reads the CancellableError it got out of Err through the three
\* accessors (futures_01.rs:21-23).
Inspect01 ==
    /\ variant = "f01"
    /\ ret.tag \in {"Cancelled", "Errored"}
    /\ acc = NoAcc
    /\ acc' = [of |-> ret, is_cancelled |-> is_cancelled_01(ret),
               finished |-> None, errored |-> errored(ret),
               cancelled |-> cancelled_01(ret)]
    /\ UNCHANGED <<variant, this, calls, entry, pResp, sResp, log, ret,
                   innerPolls, stopperPolls, innerDoneAt, stopperErrAt,
                   cancelledAt, via, twin, twinRet, pReadyAt, sReadyAt, resolvedAt,
                   firstOutcome, wakers, fired, firedAt, woken, elapsed, produced>>

\* The canceller, running beside the Cancellable, sends on the channel whose
\* receiver is the stopper (lib.rs:24, futures_01.rs:26, usage.rs:32): the
\* stopper is ready from now on and the task is woken if the stopper holds
\* its waker.
Fire ==
    /\ via # "-"
    /\ ~fired
    /\ calls < MaxCalls
    /\ fired' = TRUE
    /\ firedAt' = calls
    /\ woken' = (woken \/ "stopper" \in wakers)
    /\ UNCHANGED <<variant, this, calls, entry, pResp, sResp, log, ret,
                   innerPolls, stopperPolls, innerDoneAt, stopperErrAt,
                   cancelledAt, acc, via, twin, twinRet, pReadyAt, sReadyAt,
                   resolvedAt, firstOutcome, wakers, elapsed, produced>>

\* The work of the inner future comes to its end (the delay of lib.rs:17-18
\* elapses): the inner future is done from now on and the task is woken if
\* the inner future holds its waker.
Elapse ==
    /\ via # "-"
    /\ ~elapsed
    /\ calls < MaxCalls
    /\ elapsed' = TRUE
    /\ woken' = (woken \/ "inner" \in wakers)
    /\ UNCHANGED <<variant, this, calls, entry, pResp, sResp, log, ret,
                   innerPolls, stopperPolls, innerDoneAt, stopperErrAt,
                   cancelledAt, acc, via, twin, twinRet, pReadyAt, sReadyAt,
                   resolvedAt, firstOutcome, wakers, fired, firedAt, produced>>

Next ==
    \/ Fire
    \/ Elapse
    \/ NewCancellable
    \/ NewCancelWith
    \/ NewCancelWithFn
    \/ Poll
    \/ PollStd
    \/ Poll01
    \/ Inspect
    \/ Inspect01

Spec == Init /\ [][Next]_vars

\* The executor keeps polling the Cancellable.
FairSpec == Spec /\ WF_vars(Poll) /\ WF_vars(PollStd) /\ WF_vars(Poll01)

\* ---- vocabulary of the properties -----------------------------------------
Called == calls > 0
NotDone(r) == r.tag \in {"Pending", "NotReady"}
IsReady(r) == r.tag = "Ready"
IsErr(r) == r.tag = "Err"
InnerPolled == Count(log, "inner") > 0
StopperPolled == Count(log, "stopper") > 0
\* at entry of the latest call the stopper could still be polled
SlotPresent == entry.stopper \in {"S", "Some"}
\* Finished(v), resp. Ok(Ready(v))
FinishedRet(v) == IF variant \in {"std", "fstd"} THEN Finished(v) ELSE R("Ready", v)
NotDoneRet == IF variant \in {"std", "fstd"} THEN PendingStd ELSE NotReady01

\* C1 (success priority): on every poll call in which the inner future
\* answers ready with v, the call returns Finished(v) (Ok(Ready(v)) in the
\* futures 0.1 variant), whatever the stopper would answer and whatever came
\* before; it does not return Cancelled.
C1_SuccessPriority ==
    (Called /\ IsReady(pResp)) =>
        (ret = FinishedRet(pResp.val) /\ ret.tag # "Cancelled")

C1_Witness ==
    /\ calls >= 2 /\ variant = "std"
    /\ IsReady(pResp) /\ IsReady(sResp)
    /\ ret = Finished(pResp.val)

\* C2 (cancellation fires): on a poll call on which the inner future is not
\* done and the stopper (still held) answers ready with s, the call returns
\* Cancelled(s) (Err(Cancelled(s)) in the futures 0.1 variant).
C2_CancellationFires ==
    (Called /\ NotDone(pResp) /\ SlotPresent /\ IsReady(sResp)) =>
        ret = Cancelled(sResp.val)

C2_Witness ==
    /\ calls >= 2 /\ variant = "f01" /\ innerDoneAt = 0
    /\ SlotPresent /\ IsReady(sResp) /\ StopperPolled
    /\ ret = Cancelled(sResp.val)

\* C3 (failure against cancellation, futures 0.1 variant): when on one call
\* the inner future fails, the stopper slot is present and the stopper
\* answers ready with c, the call returns Err(Cancelled(c)), not
\* Err(Errored(e)).
C3_CancelBeatsError ==
    (Called /\ variant = "f01" /\ IsErr(pResp) /\ SlotPresent /\ IsReady(sResp)) =>
        (ret = Cancelled(sResp.val) /\ ret.tag # "Errored")

C3_Witness ==
    /\ calls >= 1 /\ variant = "f01"
    /\ IsErr(pResp) /\ entry.stopper = "Some" /\ IsReady(sResp)
    /\ log = <<"inner", "stopper">>
    /\ ret = Cancelled(sResp.val)

\* What the inner future alone makes of a call, futures 0.1 variant.
PrimaryAlone(p) ==
    IF p.tag = "Err" THEN Errored(p.val) ELSE p

\* C4 (stopper-failure degradation, futures 0.1 variant): once a stopper poll
\* has returned a failure the slot is cleared, no later call polls the
\* stopper, and every result from then on is what the inner future alone
\* gives on that call, even when the stopper would be ready.
C4_Degradation ==
    (variant = "f01" /\ stopperErrAt # 0) =>
        /\ this.stopper = "None"
        /\ ret = PrimaryAlone(pResp)
        /\ calls > stopperErrAt => (~StopperPolled /\ log = <<"inner">>)
        /\ stopperPolls <= stopperErrAt

C4_Witness ==
    /\ variant = "f01" /\ stopperErrAt # 0 /\ calls > stopperErrAt
    /\ IsReady(sResp) /\ NotDone(pResp)
    /\ ret = NotReady01 /\ ~StopperPolled

\* C5 (not-done propagation): on a poll call on which both children answer
\* not-done, the call returns not-done and the struct (the stopper slot) is
\* as it was at entry.
C5_NotDonePropagation ==
    (Called /\ NotDone(pResp) /\ NotDone(sResp)) =>
        (ret = NotDoneRet /\ this = entry)

C5_Witness ==
    /\ calls >= 2 /\ variant = "f01"
    /\ NotDone(pResp) /\ NotDone(sResp) /\ StopperPolled
    /\ ret = NotReady01 /\ this.stopper = "Some"

\* C6 (stopper failure is never surfaced, futures 0.1 variant): no call
\* returns anything made from the stopper's error; a call on which the stopper
\* fails and the inner future is not done returns not-done; with an inner
\* future that was never done and a stopper that failed on call 1, call 1 and
\* every later call return not-done.
C6_StopperFailureHidden ==
    (Called /\ variant = "f01") =>
        /\ ret.val \notin SErrVal
        /\ (IsErr(sResp) /\ SlotPresent /\ NotDone(pResp)) =>
               (ret = NotReady01 /\ StopperPolled)
        /\ (stopperErrAt = 1 /\ innerDoneAt = 0) => ret = NotReady01

C6_Witness ==
    /\ variant = "f01" /\ calls >= 3
    /\ stopperErrAt = 1 /\ innerDoneAt = 0
    /\ ret = NotReady01 /\ this.stopper = "None"

\* C7 (primary failure reporting, futures 0.1 variant): a call returns
\* Err(Errored(e)) exactly when on that call the inner future returned the
\* failure e and the stopper did not return ready (pending, failed, or slot
\* already cleared).
C7_ErroredIff ==
    (Called /\ variant = "f01") =>
        /\ ret.tag = "Errored" <=>
               (IsErr(pResp) /\ ~(SlotPresent /\ IsReady(sResp)))
        /\ ret.tag = "Errored" => ret = Errored(pResp.val)

C7_Witness ==
    /\ variant = "f01" /\ calls >= 2
    /\ IsErr(pResp) /\ entry.stopper = "None" /\ IsReady(sResp)
    /\ ret = Errored(pResp.val)

\* Everything a call can return.
RetSet ==
    IF variant \in {"std", "fstd"}
    THEN {PendingStd} \cup {Finished(t) : t \in TVal}
                     \cup {CancelledResult(c) : c \in SOutStd}
    ELSE {NotReady01} \cup {R("Ready", t) : t \in TVal}
                     \cup {Cancelled(c) : c \in SVal}
                     \cup {Errored(e) : e \in EVal}

\* C8 (child ordering within a call): every call polls the inner future
\* exactly once and first; it polls the stopper at most once, and exactly
\* when the inner future was not ready with a value and the stopper is still
\* held; it returns one of not-done or a done outcome.
C8_ChildOrdering ==
    Called =>
        /\ log \in {<<"inner">>, <<"inner", "stopper">>}
        /\ StopperPolled <=> (~IsReady(pResp) /\ SlotPresent)
        /\ ret \in RetSet
        /\ innerPolls = calls
        /\ stopperPolls <= calls

C8_Witness ==
    /\ variant = "std" /\ calls >= 2
    /\ IsReady(pResp) /\ IsReady(sResp)
    /\ log = <<"inner">> /\ stopperPolls = calls - 1

\* C9 (no fabricated results): a done outcome carries, unchanged, the value
\* a child returned on the same call: Finished(v) the inner future's ready
\* value, Cancelled(s) the polled stopper's ready value, Errored(e) the inner
\* future's error; a call on which no polled child signalled done returns
\* not-done.
C9_NoFabrication ==
    Called =>
        /\ ret.tag \in {"Finished", "Ready"} =>
               (InnerPolled /\ IsReady(pResp) /\ ret.val = pResp.val)
        /\ ret.tag = "Cancelled" =>
               (StopperPolled /\ IsReady(sResp) /\ ret.val = sResp.val)
        /\ ret.tag = "Errored" =>
               (InnerPolled /\ IsErr(pResp) /\ ret.val = pResp.val)
        /\ (NotDone(pResp) /\ (StopperPolled => NotDone(sResp))) => ret = NotDoneRet

C9_Witness ==
    /\ variant = "std" /\ calls >= 2
    /\ ret = CancelledResult(<<"S", 2>>) /\ sResp = R("Ready", <<"S", 2>>)
    /\ NotDone(pResp)

\* C10, as claimed (Cancelled is terminal for the inner future): once a call
\* has returned Cancelled, the inner future is not polled again.
C10_NeverPolledAgain ==
    [][cancelledAt # 0 => innerPolls' = innerPolls]_vars

\* C10, amended: the call that returns Cancelled polls the inner future once,
\* before the stopper, and not after it; afterwards the inner future is
\* polled again only by a further poll call of the Cancellable, once and as
\* the first step of that call.
C10_PolledOnlyByRepoll ==
    /\ [](ret.tag = "Cancelled" => log = <<"inner", "stopper">>)
    /\ [][(cancelledAt # 0 /\ innerPolls' # innerPolls) =>
            (calls' = calls + 1 /\ innerPolls' = innerPolls + 1
             /\ Head(log') = "inner")]_vars

C10_Witness ==
    /\ cancelledAt # 0 /\ calls > cancelledAt
    /\ innerPolls = calls /\ InnerPolled

\* C11 (std variant folds stopper failure into the payload): with the inner
\* future not done, any completion of the stopper, also one whose output is
\* the stopper's own failure, makes the call return Cancelled(output); the
\* stopper field is never cleared and the stopper is polled on every call on
\* which the inner future is not ready, whatever it completed with before.
C11_FailureFolded ==
    (Called /\ variant = "std") =>
        /\ (NotDone(pResp) /\ IsReady(sResp)) => ret = CancelledResult(sResp.val)
        /\ this.stopper = "S" /\ this = entry
        /\ StopperPolled <=> ~IsReady(pResp)

C11_Witness ==
    /\ variant = "std" /\ calls >= 2 /\ cancelledAt = 1
    /\ NotDone(pResp) /\ IsReady(sResp) /\ sResp.val \in SErrVal
    /\ ret = CancelledResult(sResp.val) /\ stopperPolls = calls

\* Option values an accessor can give.
OptionSet == {NoneOpt} \cup {Some(v) : v \in TVal \cup SOutStd \cup EVal}

\* C12 (accessor consistency): for a CancellableResult exactly one of
\* finished() and cancelled() is Some, carrying the payload, and
\* is_cancelled() is true exactly for Cancelled; for a CancellableError
\* exactly one of errored() and cancelled() is Some, carrying the payload, and
\* is_cancelled() is true exactly for Cancelled; every accessor gives a value.
C12_AccessorConsistency ==
    (acc # NoAcc) =>
        LET other == IF variant = "f01" THEN acc.errored ELSE acc.finished
            otherTag == IF variant = "f01" THEN "Errored" ELSE "Finished"
        IN  /\ other \in OptionSet /\ acc.cancelled \in OptionSet
            /\ acc.is_cancelled \in BOOLEAN
            /\ (other.tag = "Some") # (acc.cancelled.tag = "Some")
            /\ other.tag = "Some" <=> acc.of.tag = otherTag
            /\ other.tag = "Some" => other.val = acc.of.val
            /\ acc.cancelled.tag = "Some" <=> acc.of.tag = "Cancelled"
            /\ acc.cancelled.tag = "Some" => acc.cancelled.val = acc.of.val
            /\ acc.is_cancelled <=> acc.of.tag = "Cancelled"

C12_Witness ==
    /\ variant = "std" /\ acc # NoAcc
    /\ acc.of = CancelledResult(<<"S", 2>>)
    /\ acc.cancelled = Some(<<"S", 2>>) /\ acc.finished = NoneOpt
    /\ acc.is_cancelled

\* C13 (construction equivalence): built from the same inner and stopper,
\* cancellable(inner, stopper) and inner.cancel_with(stopper) start as the
\* same struct (futures 0.1 variant: slot present) and, polled with the same
\* child answers, return the same result and stay the same struct on every
\* call.
C13_ConstructionEquivalence ==
    (via \in {"cancellable", "cancel_with"}) =>
        /\ this = twin
        /\ ret = twinRet
        /\ (calls = 0 /\ variant = "f01") => this.stopper = "Some"
        /\ (calls = 0 /\ variant = "std") => this.stopper = "S"

C13_Witness ==
    /\ via = "cancel_with" /\ variant = "f01" /\ calls >= 2
    /\ stopperErrAt = 1 /\ IsErr(pResp)
    /\ ret = Errored(pResp.val) /\ twinRet = ret /\ twin.stopper = "None"

\* C14 (resolution time and winner, std variant): with the inner future
\* first ready on its p-th poll and the stopper first ready on its s-th poll,
\* every call before min(p, s) returns not-done and call min(p, s) is the
\* first to resolve, with Finished when p <= s and Cancelled when s < p.
\* (p = pReadyAt, s = sReadyAt; 0 stands for "not so far".)
C14_ResolutionTime ==
    (Called /\ variant = "std") =>
        /\ (pReadyAt = 0 /\ sReadyAt = 0) =>
               (resolvedAt = 0 /\ ret = PendingStd)
        /\ (pReadyAt # 0 /\ (sReadyAt = 0 \/ pReadyAt <= sReadyAt)) =>
               (resolvedAt = pReadyAt /\ firstOutcome.tag = "Finished")
        /\ (sReadyAt # 0 /\ (pReadyAt = 0 \/ sReadyAt < pReadyAt)) =>
               (resolvedAt = sReadyAt /\ firstOutcome.tag = "Cancelled")

C14_Witness ==
    /\ variant = "std" /\ calls = 3
    /\ pReadyAt = 3 /\ sReadyAt = 3
    /\ resolvedAt = 3 /\ firstOutcome = Finished(pResp.val)
    /\ stopperPolls = 2

\* C15 (no resolved flag): what a call returns is fixed by the two child
\* answers of that call and, in the futures 0.1 variant, by whether the slot
\* is present; a call made after an outcome was returned runs the same steps
\* again, polling the inner future first and then the stopper, and does not
\* return a remembered outcome.
C15_NoResolvedFlag ==
    Called =>
        /\ Len(log) >= 1 /\ log[1] = "inner"
        /\ StopperPolled <=> (~IsReady(pResp) /\ SlotPresent)
        /\ StopperPolled => log = <<"inner", "stopper">>
        /\ IsReady(pResp) => ret = FinishedRet(pResp.val)
        /\ (~IsReady(pResp) /\ SlotPresent /\ IsReady(sResp)) =>
               ret = Cancelled(sResp.val)
        /\ (NotDone(pResp) /\ ~(SlotPresent /\ IsReady(sResp))) => ret = NotDoneRet
        /\ (IsErr(pResp) /\ ~(SlotPresent /\ IsReady(sResp))) =>
               ret = Errored(pResp.val)

C15_Witness ==
    /\ variant = "std" /\ calls = 3 /\ resolvedAt = 1
    /\ firstOutcome = Finished(<<"T", 1>>)
    /\ ret = CancelledResult(<<"S", 2>>) /\ log = <<"inner", "stopper">>

\* C16 (no lost wake-up): when a call returns not-done, every child that can
\* still decide the outcome (the inner future, and the stopper unless its
\* slot is cleared) was polled with the caller's Context on that call and
\* holds its waker; so a canceller firing after a not-done call wakes the
\* task, and the call that follows returns Cancelled (the inner future still
\* not being ready).
C16_NoLostWakeup ==
    /\ (Called /\ NotDone(ret)) =>
           /\ "inner" \in wakers /\ InnerPolled
           /\ this.stopper # "None" => ("stopper" \in wakers /\ StopperPolled)
    /\ (Called /\ NotDone(ret) /\ fired /\ firedAt = calls
           /\ this.stopper # "None") => woken
    /\ (fired /\ firedAt >= 1 /\ calls = firedAt + 1 /\ SlotPresent
           /\ ~IsReady(pResp)) => ret = Cancelled(sResp.val)

C16_Witness ==
    /\ variant = "std" /\ fired /\ firedAt = 2 /\ calls = 3
    /\ resolvedAt = 3 /\ NotDone(pResp)
    /\ ret = CancelledResult(sResp.val) /\ wakers = {"inner"}

\* C17 (stopper slot lifecycle, futures 0.1 variant): the slot is present
\* when the Cancellable is built; a poll call clears it exactly when the
\* stopper was polled on that call and returned a failure; a cleared slot
\* stays cleared.  So it is still present after a call on which the stopper
\* was pending and after a call that returned Cancelled.
C17_SlotLifecycle ==
    /\ []((variant = "f01" /\ via # "-" /\ calls = 0) => this.stopper = "Some")
    /\ [][(variant = "f01" /\ via # "-") =>
            /\ this'.stopper \in {"Some", "None"}
            /\ this.stopper = "None" => this'.stopper = "None"
            /\ (this.stopper = "Some" /\ this'.stopper = "None") <=>
                   (/\ calls' = calls + 1
                    /\ this.stopper = "Some"
                    /\ Count(log', "stopper") > 0
                    /\ sResp'.tag = "Err")]_vars

C17_Witness ==
    /\ variant = "f01" /\ calls = 3
    /\ cancelledAt = 1 /\ stopperErrAt = 3
    /\ entry.stopper = "Some" /\ this.stopper = "None"

\* C18 (eventual resolution): with an executor that keeps polling, once the
\* inner future is done, or the stopper is ready while its slot is present,
\* a call returns a done outcome; and as long as neither child has been ready
\* or done, every call has returned not-done.
C18_EventualResolution ==
    /\ (elapsed \/ (fired /\ this.stopper # "None")) ~> (resolvedAt # 0)
    /\ []((innerDoneAt = 0 /\ pReadyAt = 0 /\ sReadyAt = 0) =>
             (resolvedAt = 0 /\ (Called => ret = NotDoneRet)))

C18_Witness ==
    /\ variant = "f01" /\ fired /\ firedAt = 2 /\ ~elapsed
    /\ calls = 3 /\ resolvedAt = 3 /\ IsErr(pResp)
    /\ firstOutcome = Cancelled(sResp.val)

\* C19 (producer-based attachment, src/futures_std.rs): cancel_with invokes
\* the producer exactly once, when the Cancellable is built and before any
\* poll of the inner future or the stopper; no poll call invokes it.
C19_ProducerOnce ==
    /\ [](variant = "fstd" =>
            /\ via = "-" => (produced = 0 /\ innerPolls = 0 /\ stopperPolls = 0)
            /\ via # "-" => (produced = 1 /\ this.stopper = "S"))
    /\ [][produced' # produced =>
            /\ via = "-" /\ via' = "cancel_with_fn"
            /\ produced' = produced + 1
            /\ calls = 0 /\ calls' = 0
            /\ innerPolls' = 0 /\ stopperPolls' = 0]_vars

C19_Witness ==
    /\ variant = "fstd" /\ via = "cancel_with_fn"
    /\ calls = 3 /\ stopperPolls = 3 /\ innerPolls = 3
    /\ produced = 1 /\ ret = CancelledResult(sResp.val)

====
